---- MODULE Spec2Model ----
(***************************************************************************)
(* Model of the LiveManager session controller (services/liveManager.ts):  *)
(* connection lifecycle, microphone capture callback, inbound playback     *)
(* scheduling and the file-upload/retry protocol, on the single-threaded   *)
(* event loop of the browser.  One action is one run-to-completion turn of *)
(* the event loop: the code between two real suspension points.            *)
(***************************************************************************)
EXTENDS Integers, Sequences, FiniteSets, TLC

\* ---------------------------------------------------------------- bounds
MaxChunks == 2    \* length of an uploaded clip, in chunks
MaxQueue == 2     \* reactions queued on a pending session promise
MaxFaults == 1    \* spontaneous failures of the environment in one behaviour
MaxMsgs == 2      \* inbound messages in one behaviour
MaxDur == 1       \* duration of a decoded chunk, in clock ticks
MaxTime == 1      \* ticks of the output device clock
MaxSamples == 3   \* samples of a clip whose values are followed
MaxAmp == 2       \* largest magnitude of such a sample

\* ------------------------------------------------------ program constants
CHUNK_SIZE == 8192

\* connect() invocations on one LiveManager: App.startSession creates a new
\* LiveManager for every session and calls connect() on it once (invocation
\* 1); the retry of the upload job followed here reconnects once more
\* (invocation 2).
Gens == {1, 2}

\* Entries of the upload send log: an audio chunk cut at offset off of the
\* normalized buffer, and the completion prompt.
ChunkMsg(off) == [kind |-> "chunk", off |-> off]
PromptMsg == [kind |-> "prompt", off |-> 0]

\* Clip lengths (samples after resampling): empty, partial and whole chunks.
Lens == {0} \cup {(k - 1) * CHUNK_SIZE + r : k \in 1..MaxChunks, r \in {1, CHUNK_SIZE}}

\* Failure texts the transport can produce; "Session not active" is the
\* text streamAudioData itself throws.
EnvMsgs == {"closed", "quota"}
Msgs == EnvMsgs \cup {"Session not active"}
SendOutcomes == {"ok"} \cup EnvMsgs

Max(a, b) == IF a >= b THEN a ELSE b

\* What handleMessage meets next in the parts of its message, after a run of
\* text parts: the end of the parts (with the message's interrupted flag), or
\* an inline-audio part that decodes to a buffer of dur ticks.
Upcoming ==
  {[end |-> TRUE, intr |-> b, dur |-> 0] : b \in BOOLEAN}
    \cup {[end |-> FALSE, intr |-> FALSE, dur |-> d] : d \in 1..MaxDur}
\* Inbound messages carry no, one or two parts.
PartCounts == {0, 1, 2}
MsgIds == 1..MaxMsgs
NoHandler == [pc |-> "none", j |-> 0, dur |-> 0, clean |-> FALSE, g |-> 0]
DoneHandler == [pc |-> "done", j |-> 0, dur |-> 0, clean |-> FALSE, g |-> 0]
DeadHandler == [pc |-> "died", j |-> 0, dur |-> 0, clean |-> FALSE, g |-> 0]
\* last: the source started last (message, part, start time, duration),
\* whether no cursor reset happened between its arrival and its start
\* (clean) and since its start (fresh), and whether it was the first source
\* started after an interrupted signal was handled (first)
NoChunk == [msg |-> 0, part |-> 0, start |-> 0, dur |-> 0, clean |-> FALSE,
            fresh |-> FALSE, first |-> FALSE]

\* A sample is an integer in -MaxAmp..MaxAmp; a scaled sample is a fraction
\* <<numerator, denominator>>.
Samples == (0 - MaxAmp)..MaxAmp
Buffers == UNION {[1..n -> Samples] : n \in 0..MaxSamples}
NoClip == [pc |-> "none", raw |-> <<>>, data |-> <<>>, scaled |-> FALSE]

VARIABLES
  \* LiveManager fields (0 models null; a positive number names the object
  \* created by that connect() invocation)
  sessionPromise, inputContext, outputContext, scriptProcessor, inputSource,
  isProcessingFile, hasActiveMic, nextStartTime,
  \* observers
  status, prevStatus,
  \* collaborators: session promise, channel, audio contexts, processing node
  prom, promErr, chan, ctxIn, ctxOut, proc, procCtx, reactions, micro,
  released, misuse, nFaults,
  \* the microphone MediaStream obtained by each connect() invocation
  stream,
  \* connect() invocations
  nGen, connPc, connCaller,
  \* App state: an upload started by the file input is in progress
  isUploading,
  \* the upload job (sendAudioFile / streamAudioData)
  upPc, upLen, upI, upSession, upCtx, upAttempts, upFirstErr, upFirstSent,
  upSent, upErr,
  \* inbound playback: device clocks, handleMessage invocations, the
  \* source started last
  currentTime, hm, nMsgs, last, intrFirst,
  \* the samples of a decoded clip: as resampled (raw) and as left by the
  \* normalization (data)
  clip,
  \* what the last turn put on the wire or delivered to observers
  out

vars == <<sessionPromise, inputContext, outputContext, scriptProcessor, inputSource,
          isProcessingFile, hasActiveMic, nextStartTime, status, prevStatus,
          prom, promErr, chan, ctxIn, ctxOut, proc, procCtx, reactions, micro,
          released, misuse, nFaults, stream, nGen, connPc, connCaller, isUploading,
          upPc, upLen, upI, upSession, upCtx, upAttempts, upFirstErr, upFirstSent,
          upSent, upErr,
          currentTime, hm, nMsgs, last, intrFirst, clip, out>>

\* The whole state as one record, so that the sequential code of a handler
\* (disconnect(); connect(); ...) composes as function application.
Cur ==
  [sessionPromise |-> sessionPromise, inputContext |-> inputContext,
   outputContext |-> outputContext, scriptProcessor |-> scriptProcessor,
   inputSource |-> inputSource, isProcessingFile |-> isProcessingFile,
   hasActiveMic |-> hasActiveMic, nextStartTime |-> nextStartTime,
   status |-> status, prevStatus |-> prevStatus,
   prom |-> prom, promErr |-> promErr, chan |-> chan, ctxIn |-> ctxIn,
   ctxOut |-> ctxOut, proc |-> proc, procCtx |-> procCtx,
   reactions |-> reactions, micro |-> micro,
   released |-> released, misuse |-> misuse, nFaults |-> nFaults,
   stream |-> stream, isUploading |-> isUploading,
   nGen |-> nGen, connPc |-> connPc, connCaller |-> connCaller,
   upPc |-> upPc, upLen |-> upLen, upI |-> upI, upSession |-> upSession,
   upCtx |-> upCtx, upAttempts |-> upAttempts, upFirstErr |-> upFirstErr,
   upFirstSent |-> upFirstSent,
   upSent |-> upSent, upErr |-> upErr,
   currentTime |-> currentTime, hm |-> hm, nMsgs |-> nMsgs, last |-> last,
   intrFirst |-> intrFirst, clip |-> clip,
   out |-> <<>>]

Commit(s) ==
  /\ s.nGen \in {0} \cup Gens            \* no more connect() invocations than Gens
  /\ sessionPromise' = s.sessionPromise   /\ inputContext' = s.inputContext
  /\ outputContext' = s.outputContext     /\ scriptProcessor' = s.scriptProcessor
  /\ inputSource' = s.inputSource         /\ isProcessingFile' = s.isProcessingFile
  /\ hasActiveMic' = s.hasActiveMic       /\ nextStartTime' = s.nextStartTime
  /\ status' = s.status                   /\ prevStatus' = s.prevStatus
  /\ prom' = s.prom                       /\ promErr' = s.promErr
  /\ chan' = s.chan                       /\ ctxIn' = s.ctxIn
  /\ ctxOut' = s.ctxOut                   /\ proc' = s.proc
  /\ procCtx' = s.procCtx                 /\ reactions' = s.reactions
  /\ micro' = s.micro                     /\ released' = s.released
  /\ misuse' = s.misuse                   /\ nGen' = s.nGen
  /\ stream' = s.stream                   /\ isUploading' = s.isUploading
  /\ connPc' = s.connPc                   /\ connCaller' = s.connCaller
  /\ upPc' = s.upPc                       /\ upLen' = s.upLen
  /\ upI' = s.upI                         /\ upSession' = s.upSession
  /\ upCtx' = s.upCtx                     /\ upAttempts' = s.upAttempts
  /\ upFirstErr' = s.upFirstErr           /\ upSent' = s.upSent
  /\ upFirstSent' = s.upFirstSent
  /\ upErr' = s.upErr                     /\ out' = s.out
  /\ nFaults' = s.nFaults                 /\ currentTime' = s.currentTime
  /\ hm' = s.hm                           /\ nMsgs' = s.nMsgs
  /\ last' = s.last                       /\ intrFirst' = s.intrFirst
  /\ clip' = s.clip

Ev(kind, ch, off) == [kind |-> kind, ch |-> ch, off |-> off]
Emit(s, kind, ch, off) == [s EXCEPT !.out = Append(@, Ev(kind, ch, off))]

\* onStatusChange(st)
Notify(s, st) == [s EXCEPT !.prevStatus = s.status, !.status = st]

\* onError(message)
OnError(s) == Emit(s, "onError", 0, 0)

\* A release operation applied to one native resource.
Release(s, r) ==
  [s EXCEPT !.released = @ \cup {r},
            !.misuse = @ \cup (IF r[2] = 0 THEN {"null"} ELSE {})
                         \cup (IF r \in s.released THEN {"double"} ELSE {})]

\* variant: a promise that puts a new reaction in front of the others
ThenFirst(q, k, g) == <<[k |-> k, g |-> g, n |-> Len(q) + 1]>> \o q

\* promise.then(reaction) on a pending promise with the reactions q: the
\* reaction of kind k for session g is registered after the others; n is
\* its registration number
Then(q, k, g) == Append(q, [k |-> k, g |-> g, n |-> Len(q) + 1])

\* session.close() on the resolved session p
CloseSession(s, p) ==
  LET s1 == Release(s, <<"session", p>>)
  IN IF s1.chan[p] = "open" THEN [s1 EXCEPT !.chan[p] = "closing"] ELSE s1

\* ------------------------------------------------------------ disconnect
\* disconnect(), lines 306-330: the flags and the guarded releases.  The
\* .then(s => s.close()) reaction runs at once when the session promise is
\* already resolved, is queued on it while it is pending, and is swallowed by
\* .catch when it is rejected.
DisconnectRelease(s) ==
  LET p  == s.sessionPromise
      s1 == [s EXCEPT !.isProcessingFile = FALSE, !.hasActiveMic = FALSE]
      s2 == IF p # 0
              THEN CASE s1.prom[p] = "resolved" -> CloseSession(s1, p)
                     [] s1.prom[p] = "pending" ->
                          [s1 EXCEPT !.reactions[p] = Then(@, "close", p)]
                     [] OTHER -> s1
              ELSE s1
      sp == s.scriptProcessor
      s3 == IF sp # 0
              THEN [Release(s2, <<"proc", sp>>) EXCEPT !.proc[sp] = "off"]
              ELSE s2
      s4 == IF s.inputSource # 0 THEN Release(s3, <<"source", s.inputSource>>) ELSE s3
      ic == s.inputContext
      s5 == IF ic # 0 /\ s4.ctxIn[ic] # "closed"
              THEN [Release(s4, <<"ctxIn", ic>>) EXCEPT !.ctxIn[ic] = "closed"]
              ELSE s4
      oc == s.outputContext
  IN IF oc # 0 /\ s5.ctxOut[oc] # "closed"
       THEN [Release(s5, <<"ctxOut", oc>>) EXCEPT !.ctxOut[oc] = "closed"]
       ELSE s5

\* Bookkeeping of a cursor reset: the chunks that arrived or were started
\* before it are no longer "without an interruption or disconnect between".
MarkReset(s) ==
  [s EXCEPT !.hm = [k \in MsgIds |-> [@[k] EXCEPT !.clean = FALSE]],
            !.last = [@ EXCEPT !.fresh = FALSE]]

\* disconnect(), lines 332-337
DisconnectReset(s) ==
  MarkReset([s EXCEPT !.sessionPromise = 0, !.inputContext = 0, !.outputContext = 0,
                      !.scriptProcessor = 0, !.inputSource = 0, !.nextStartTime = 0])

\* the "disconnect" event of out carries the number of releases the call made
Released(s, s1) == Emit(s1, "disconnect", 0, Cardinality(s1.released \ s.released))

\* variant: a disconnect() that leaves its fields set
DisconnectNoReset(s) == Notify(Released(s, DisconnectRelease(s)), "DISCONNECTED")

\* disconnect(), lines 305-339
DisconnectF(s) ==
  Notify(DisconnectReset(Released(s, DisconnectRelease(s))), "DISCONNECTED")

\* ------------------------------------------------------- upload job exits
\* variant: a file handler whose exit leaves isUploading set
AppFinallyKeep(s) == s

\* App.handleFileUpload's finally block, run when the awaited sendAudioFile
\* (or startSession) settled
AppFinallyF(s) == [s EXCEPT !.isUploading = FALSE]

\* variant: a decode catch block that leaves the upload flag set
DecodeCatchKeepFlag(s) == AppFinallyF([s EXCEPT !.upPc = "threw", !.upErr = "decode"])

\* sendAudioFile's decode catch block, lines 227-231
DecodeCatchF(s) ==
  AppFinallyF([s EXCEPT !.isProcessingFile = FALSE, !.upPc = "threw", !.upErr = "decode"])

\* variant: a classification that does not know the text "closed"
IsTransientNoClosed(m) == m \in {"unavailable", "timeout", "Session not active"}

\* the retry test of line 240
IsTransient(m) == m \in {"unavailable", "timeout", "closed", "Session not active"}

\* sendAudioFile's finally block, then the return or the throw
JobFinallyF(s, res, m) ==
  AppFinallyF([s EXCEPT !.isProcessingFile = FALSE, !.upPc = res, !.upErr = m])

\* --------------------------------------------------------------- connect
\* connect(), lines 29-38: up to the first suspension.  A new AudioContext is
\* created suspended.
ConnectBeginF(s, caller) ==
  LET g  == s.nGen + 1
      s1 == Notify(s, "CONNECTING")
      s2 == [s1 EXCEPT !.nGen = g, !.inputContext = g, !.outputContext = g,
                       !.ctxIn[g] = "suspended", !.ctxOut[g] = "suspended",
                       !.currentTime[g] = 0, !.connCaller[g] = caller]
  IN IF g \notin Gens
       THEN [s EXCEPT !.nGen = g]
       ELSE IF s2.ctxOut[s2.outputContext] = "suspended"
              THEN [s2 EXCEPT !.connPc[g] = "resume"]
              ELSE [s2 EXCEPT !.connPc[g] = "gum"]

\* variant: a catch block that gives up on a transient failure and returns
JobCatchNoRetry(s0, m) ==
  IF s0.upAttempts = 1
    THEN JobFinallyF([s0 EXCEPT !.upFirstErr = m, !.upFirstSent = Len(s0.upSent)],
                     IF IsTransient(m) THEN "returned" ELSE "threw", m)
    ELSE JobFinallyF(s0, "threw", m)

\* variant: a catch block that swallows the failure of the retry
JobCatchSwallow(s0, m) ==
  IF s0.upAttempts = 1
    THEN LET s == [s0 EXCEPT !.upFirstErr = m, !.upFirstSent = Len(s0.upSent)]
         IN IF IsTransient(m)
              THEN [ConnectBeginF(DisconnectF(s), "job") EXCEPT !.upPc = "reconnect"]
              ELSE JobFinallyF(s, "threw", m)
    ELSE JobFinallyF(s0, "returned", m)

\* sendAudioFile's catch block, lines 236-248, entered with failure text m from
\* the first streamAudioData; a failure of the retry itself leaves through
\* the finally block.
JobCatchF(s0, m) ==
  IF s0.upAttempts = 1
    THEN LET s == [s0 EXCEPT !.upFirstErr = m, !.upFirstSent = Len(s0.upSent)]
         IN IF IsTransient(m)
              THEN [ConnectBeginF(DisconnectF(s), "job") EXCEPT !.upPc = "reconnect"]
              ELSE JobFinallyF(s, "threw", m)
    ELSE JobFinallyF(s0, "threw", m)

\* session.sendRealtimeInput on the session of channel g: it succeeds on an
\* open channel; on a channel that is no longer open the transport either
\* drops the payload silently or throws, the outcome o chosen by the caller.
SendResult(s, g, o) == IF s.chan[g] = "open" THEN "ok" ELSE o

\* variant: a loop that runs while upI <= upLen
StreamLoopInclusive(s, o) ==
  LET g == s.upSession
      r == SendResult(s, g, o)
  IN IF s.upI <= s.upLen
       THEN IF r = "ok"
              THEN [Emit(s, "chunk", g, s.upI)
                      EXCEPT !.upSent = Append(@, ChunkMsg(s.upI)), !.upPc = "pace"]
              ELSE JobCatchF(s, r)
       ELSE IF r = "ok"
              THEN JobFinallyF([Emit(s, "prompt", g, 0)
                                  EXCEPT !.upSent = Append(@, PromptMsg)], "returned", "none")
              ELSE JobCatchF(s, r)

\* variant: a loop that does not pause between the last chunk and the prompt
StreamLoopNoLastPace(s, o) ==
  LET g == s.upSession
      r == SendResult(s, g, o)
      s1 == [Emit(s, "chunk", g, s.upI) EXCEPT !.upSent = Append(@, ChunkMsg(s.upI))]
  IN IF s.upI < s.upLen
       THEN IF r = "ok"
              THEN IF s.upI + CHUNK_SIZE < s.upLen
                     THEN [s1 EXCEPT !.upPc = "pace"]
                     ELSE JobFinallyF([Emit(s1, "prompt", g, 0)
                                         EXCEPT !.upSent = Append(@, PromptMsg)],
                                      "returned", "none")
              ELSE JobCatchF(s, r)
       ELSE IF r = "ok"
              THEN JobFinallyF([Emit(s, "prompt", g, 0)
                                  EXCEPT !.upSent = Append(@, PromptMsg)], "returned", "none")
              ELSE JobCatchF(s, r)

\* streamAudioData, lines 284-302, from the loop test at offset upI up to the
\* next pacing delay, the return or the throw.
StreamLoopF(s, o) ==
  LET g == s.upSession
      r == SendResult(s, g, o)
  IN IF s.upI < s.upLen
       THEN IF r = "ok"
              THEN [Emit(s, "chunk", g, s.upI)
                      EXCEPT !.upSent = Append(@, ChunkMsg(s.upI)), !.upPc = "pace"]
              ELSE JobCatchF(s, r)
       ELSE IF r = "ok"
              THEN JobFinallyF([Emit(s, "prompt", g, 0)
                                  EXCEPT !.upSent = Append(@, PromptMsg)], "returned", "none")
              ELSE JobCatchF(s, r)

\* variant: a retry that goes on from the offset at which the send failed
StreamEntryResume(s0, o) ==
  LET s == [s0 EXCEPT !.upAttempts = @ + 1, !.upSent = <<>>]
      p == s.sessionPromise
  IN IF p = 0
       THEN JobCatchF(s, "Session not active")
       ELSE CASE s.prom[p] = "pending" ->
                   [s EXCEPT !.reactions[p] = Then(@, "job", p),
                             !.upSession = p, !.upPc = "awaitSession"]
              [] s.prom[p] = "resolved" -> StreamLoopF([s EXCEPT !.upSession = p], o)
              [] OTHER -> JobCatchF(s, s.promErr[p])

\* streamAudioData, lines 255-256 (the visualisation set-up of 264-282 sends
\* nothing and is left out), counted as one more streaming attempt.
StreamEntryF(s0, o) ==
  LET s == [s0 EXCEPT !.upAttempts = @ + 1, !.upI = 0, !.upSent = <<>>]
      p == s.sessionPromise
  IN IF p = 0
       THEN JobCatchF(s, "Session not active")
       ELSE CASE s.prom[p] = "pending" ->
                   [s EXCEPT !.reactions[p] = Then(@, "job", p),
                             !.upSession = p, !.upPc = "awaitSession"]
              [] s.prom[p] = "resolved" -> StreamLoopF([s EXCEPT !.upSession = p], o)
              [] OTHER -> JobCatchF(s, s.promErr[p])

\* variant: a sendAudioFile that raises its flag before it looks for the
\* session
SendAudioFileFlagFirst(s0, n) ==
  LET s1 == [s0 EXCEPT !.upLen = n, !.upI = 0, !.upSession = 0, !.upCtx = 0,
                       !.upAttempts = 0, !.upFirstErr = "none", !.upFirstSent = 0,
                       !.upSent = <<>>,
                       !.upErr = "none"]
      s  == [s1 EXCEPT !.isProcessingFile = TRUE]
  IN IF s0.sessionPromise = 0
       THEN AppFinallyF([s0 EXCEPT !.upPc = "rejected", !.upErr = "Session not active",
                                   !.isProcessingFile = TRUE])
       ELSE IF s.outputContext # 0 /\ s.ctxOut[s.outputContext] = "suspended"
              THEN [s EXCEPT !.upPc = "resumeOut", !.upCtx = s.outputContext]
              ELSE IF s.inputContext # 0 /\ s.ctxIn[s.inputContext] = "suspended"
                     THEN [s EXCEPT !.upPc = "resumeIn", !.upCtx = s.inputContext]
                     ELSE [s EXCEPT !.upPc = "decode"]

\* sendAudioFile(file), lines 186-199, for a clip of n resampled samples: a
\* new job, up to its first suspension
SendAudioFileF(s0, n) ==
  LET s1 == [s0 EXCEPT !.upLen = n, !.upI = 0, !.upSession = 0, !.upCtx = 0,
                       !.upAttempts = 0, !.upFirstErr = "none", !.upFirstSent = 0,
                       !.upSent = <<>>,
                       !.upErr = "none"]
      s  == [s1 EXCEPT !.isProcessingFile = TRUE]
  IN IF s0.sessionPromise = 0
       THEN AppFinallyF([s0 EXCEPT !.upPc = "rejected", !.upErr = "Session not active"])
       ELSE IF s.outputContext # 0 /\ s.ctxOut[s.outputContext] = "suspended"
              THEN [s EXCEPT !.upPc = "resumeOut", !.upCtx = s.outputContext]
              ELSE IF s.inputContext # 0 /\ s.ctxIn[s.inputContext] = "suspended"
                     THEN [s EXCEPT !.upPc = "resumeIn", !.upCtx = s.inputContext]
                     ELSE [s EXCEPT !.upPc = "decode"]

\* connect()'s catch block, lines 118-124; when the caller is the upload job's
\* retry the error leaves sendAudioFile through its finally block, and when
\* it is App.handleFileUpload's startSession, through the App's.
ConnectCatchF(s, g) ==
  LET s1 == Notify(OnError(DisconnectF(s)), "ERROR")
      s2 == [s1 EXCEPT !.connPc[g] = "threw"]
  IN IF s.connCaller[g] \in {"job", "upload"}
       THEN JobFinallyF(s2, "threw", "connect")
       ELSE s2

\* connect(), lines 41-49, after the resume of the output context
ConnectAfterResumeF(s, g) ==
  IF s.inputContext = 0 \/ s.outputContext = 0
    THEN ConnectCatchF(s, g)          \* createAnalyser on null: TypeError
    ELSE [s EXCEPT !.connPc[g] = "gum"]

\* variant: a connect() for which a failed microphone acquisition is fatal
ConnectAfterGumFatal(s, g, granted) ==
  LET s1 == [s EXCEPT !.stream[g] = "live", !.inputSource = g, !.scriptProcessor = g,
                      !.proc[g] = "live", !.procCtx[g] = s.inputContext,
                      !.hasActiveMic = TRUE]
      s2 == [s1 EXCEPT !.sessionPromise = g, !.prom[g] = "pending",
                       !.chan[g] = "connecting", !.connPc[g] = "done"]
  IN IF granted /\ s.inputContext # 0
       THEN CASE s.connCaller[g] = "job" -> StreamEntryF(s2, "ok")
              [] s.connCaller[g] = "upload" -> SendAudioFileF(s2, s2.upLen)
              [] OTHER -> s2
       ELSE ConnectCatchF(s, g)

\* connect(), lines 50-116, after getUserMedia settled: the capture pipeline
\* when the stream was granted and the input context is still there, then
\* the channel.  connect() returns without awaiting the session promise; an
\* upload job that awaited it goes on to its second streamAudioData.
ConnectAfterGumF(s, g, granted) ==
  LET s0 == IF granted THEN [s EXCEPT !.stream[g] = "live"] ELSE s
      s1 == IF granted /\ s.inputContext # 0
              THEN [s0 EXCEPT !.inputSource = g, !.scriptProcessor = g,
                              !.proc[g] = "live", !.procCtx[g] = s.inputContext,
                              !.hasActiveMic = TRUE]
              ELSE [s0 EXCEPT !.hasActiveMic = FALSE]
      s2 == [s1 EXCEPT !.sessionPromise = g, !.prom[g] = "pending",
                       !.chan[g] = "connecting", !.connPc[g] = "done"]
  IN CASE s.connCaller[g] = "job" -> StreamEntryF(s2, "ok")
       [] s.connCaller[g] = "upload" -> SendAudioFileF(s2, s2.upLen)
       [] OTHER -> s2

\* App.startSession, lines 36-76, called by handleFileUpload: the manager in
\* use is disconnected, a new one is created and connected
StartSessionF(s, n) ==
  LET s1 == IF s.nGen > 0 THEN DisconnectF(s) ELSE s
  IN [ConnectBeginF(s1, "upload") EXCEPT !.upPc = "startSession", !.upLen = n]

\* App.handleFileUpload, line 109: the error of a selection made while the
\* connection is being set up
ConnectionInProgress == "Connection in progress. Please wait a moment."

\* variant: a file handler without the isUploading guard
HandleFileUploadNoGuard(s0, n) ==
  LET s == [s0 EXCEPT !.isUploading = TRUE]
  IN IF s.nGen = 0 \/ s.status \in {"DISCONNECTED", "ERROR"}
       THEN StartSessionF(s, n)
       ELSE IF s.status = "CONNECTING"
              THEN AppFinallyF([Emit(s, "uploadFailed", 0, 0)
                                  EXCEPT !.upErr = ConnectionInProgress])
              ELSE SendAudioFileF(s, n)

\* variant: a file handler that starts a session only from DISCONNECTED
HandleFileUploadNoErrorRestart(s0, n) ==
  IF s0.isUploading
    THEN Emit(s0, "uploadRejected", 0, 0)
    ELSE LET s == [s0 EXCEPT !.isUploading = TRUE]
         IN IF s.nGen = 0 \/ s.status = "DISCONNECTED"
              THEN StartSessionF(s, n)
              ELSE IF s.status = "CONNECTING"
                     THEN AppFinallyF([Emit(s, "uploadFailed", 0, 0)
                                         EXCEPT !.upErr = ConnectionInProgress])
                     ELSE SendAudioFileF(s, n)

\* App.handleFileUpload(file), lines 92-123, up to its first suspension
HandleFileUploadF(s0, n) ==
  IF s0.isUploading
    THEN Emit(s0, "uploadRejected", 0, 0)
    ELSE LET s == [s0 EXCEPT !.isUploading = TRUE]
         IN IF s.nGen = 0 \/ s.status \in {"DISCONNECTED", "ERROR"}
              THEN StartSessionF(s, n)
              ELSE IF s.status = "CONNECTING"
                     THEN AppFinallyF([Emit(s, "uploadFailed", 0, 0)
                                         EXCEPT !.upErr = ConnectionInProgress])
                     ELSE SendAudioFileF(s, n)

\* ------------------------------------------------------- inbound dispatch
\* variant: an interrupted branch that keeps the cursor
HmEndKeepCursor(s, k, intr) ==
  LET s1 == IF intr THEN [MarkReset(s) EXCEPT !.intrFirst = TRUE] ELSE s
  IN [s1 EXCEPT !.hm[k] = DoneHandler]

\* handleMessage's interrupted branch, lines 176-179, and its end
HmEnd(s, k, intr) ==
  LET s1 == IF intr
              THEN [MarkReset(s) EXCEPT !.nextStartTime = 0, !.intrFirst = TRUE]
              ELSE s
  IN [s1 EXCEPT !.hm[k] = DoneHandler]

\* variant: a handler that reports the text of a message's first part only
EmitTextsFirstOnly(s, k, j, n) ==
  IF j = 0 /\ n > 0 THEN [s EXCEPT !.out = Append(@, Ev("text", k, 1))] ELSE s

\* onTextReceived for the text parts j+1 .. j+n, lines 135-138
EmitTexts(s, k, j, n) ==
  [s EXCEPT !.out = @ \o [i \in 1..n |-> Ev("text", k, j + i)]]

\* handleMessage's loop, lines 133-146, from after part j: nText text parts,
\* then what comes up.  An audio part moves the cursor to max(cursor,
\* currentTime) and suspends on its decode; with outputContext null the read
\* of currentTime at line 146 throws outside the try block and ends the
\* invocation.
HmLoop(s, k, j, nText, up) ==
  LET s1 == EmitTexts(s, k, j, nText)
  IN IF up.end
       THEN HmEnd(s1, k, up.intr)
       ELSE IF s1.outputContext = 0
              THEN [s1 EXCEPT !.hm[k] = DeadHandler]
              ELSE [s1 EXCEPT !.nextStartTime = Max(@, s1.currentTime[s1.outputContext]),
                              !.hm[k].pc = "decode", !.hm[k].j = j + nText + 1,
                              !.hm[k].dur = up.dur]

\* The parts met so far are parts of one message.
FitsParts(j, nText, up) == (j + nText + (IF up.end THEN 0 ELSE 1)) \in PartCounts

\* variant: a scheduler that leaves the cursor where the chunk started
HmScheduleNoAdvance(s, k) ==
  LET h == s.hm[k]
  IN [s EXCEPT !.last = [msg |-> k, part |-> h.j, start |-> s.nextStartTime,
                         dur |-> h.dur, clean |-> h.clean, fresh |-> TRUE,
                         first |-> s.intrFirst],
               !.intrFirst = FALSE]

\* handleMessage, lines 155-167: the decoded buffer is started at the cursor
\* and the cursor advances by its duration.
HmSchedule(s, k) ==
  LET h == s.hm[k]
  IN [s EXCEPT !.last = [msg |-> k, part |-> h.j, start |-> s.nextStartTime,
                         dur |-> h.dur, clean |-> h.clean, fresh |-> TRUE,
                         first |-> s.intrFirst],
               !.nextStartTime = @ + h.dur,
               !.intrFirst = FALSE]

\* ------------------------------------------------------------ capture
\* variant: a capture callback that does not look at the upload flag
MicMutedNoFlag(s) == s.sessionPromise = 0 \/ s.inputContext = 0

\* onaudioprocess, line 58: the frame is dropped without a session, without
\* an input context, or while a file is uploaded
MicMuted(s) == s.sessionPromise = 0 \/ s.inputContext = 0 \/ s.isProcessingFile

\* --------------------------------------------------- peak normalization
Abs(x) == IF x < 0 THEN 0 - x ELSE x

\* 0.95, the peak the loudest sample is scaled to, as a fraction
HEADROOM == <<95, 100>>

\* sendAudioFile, lines 215-218: the loop that finds the largest magnitude
\* among the samples from index i on, starting from maxVal
RECURSIVE MaxValFrom(_, _, _)
MaxValFrom(buf, i, maxVal) ==
  IF i > Len(buf)
    THEN maxVal
    ELSE MaxValFrom(buf, i + 1, IF Abs(buf[i]) > maxVal THEN Abs(buf[i]) ELSE maxVal)

\* variant: a normalization that scales without testing the peak
NormalizeNoGuard(buf) ==
  LET maxVal == MaxValFrom(buf, 1, 0)
  IN [data |-> [i \in DOMAIN buf |->
                  <<buf[i] * HEADROOM[1], maxVal * HEADROOM[2]>>],
      scaled |-> TRUE]

\* sendAudioFile, lines 214-225: every sample is multiplied by
\* scale = 0.95 / maxVal when maxVal > 0, and left alone otherwise
Normalize(buf) ==
  LET maxVal == MaxValFrom(buf, 1, 0)
  IN IF maxVal > 0
       THEN [data |-> [i \in DOMAIN buf |->
                         <<buf[i] * HEADROOM[1], maxVal * HEADROOM[2]>>],
             scaled |-> TRUE]
       ELSE [data |-> [i \in DOMAIN buf |-> <<buf[i], 1>>], scaled |-> FALSE]

\* variant: a capture callback for which a failed send is fatal
MicSendFatal(s, g, o, kind, n) ==
  IF SendResult(s, g, o) = "ok"
    THEN Emit(s, kind, g, n)
    ELSE Notify(OnError(Emit(s, "micfail", g, 0)), "ERROR")

\* the reaction registered by onaudioprocess, lines 66-72: the frame is sent
\* on the resolved session; an exception of the send is caught and logged
MicSendF(s, g, o, kind, n) ==
  IF SendResult(s, g, o) = "ok"
    THEN Emit(s, kind, g, n)
    ELSE Emit(s, "micfail", g, 0)

\* ================================================================ actions
\* No reaction of a settled promise is waiting: the event loop takes the
\* next task only when the microtask queue is empty.
Idle == micro = <<>>

\* The environment fails spontaneously at most MaxFaults times.
CanFail == nFaults < MaxFaults
Fault(s) == [s EXCEPT !.nFaults = @ + 1]

\* ---- caller: connect() and disconnect()
\* connect() on the freshly constructed manager (App.startSession)
Connect ==
  /\ Idle
  /\ nGen = 0
  /\ Commit(ConnectBeginF(Cur, "user"))

\* connect() called again on a manager that already ran connect(), with no
\* disconnect() in between
ConnectAgain ==
  /\ Idle
  /\ nGen \in Gens /\ nGen + 1 \in Gens
  /\ Commit(ConnectBeginF(Cur, "user"))

Disconnect ==
  /\ Idle
  /\ Commit(DisconnectF(Cur))

\* ---- connect() resumes
\* outputContext.resume() resolved
ConnectResumeOk(g) ==
  /\ Idle
  /\ connPc[g] = "resume" /\ ctxOut[g] = "suspended"
  /\ Commit(ConnectAfterResumeF([Cur EXCEPT !.ctxOut[g] = "running"], g))

\* outputContext.resume() rejected (the context was closed meanwhile, or the
\* device could not be started)
ConnectResumeFail(g) ==
  /\ Idle
  /\ connPc[g] = "resume"
  /\ IF ctxOut[g] = "closed"
       THEN Commit(ConnectCatchF(Cur, g))
       ELSE CanFail /\ Commit(ConnectCatchF(Fault(Cur), g))

\* getUserMedia settled: granted or denied
ConnectGum(g, granted) ==
  /\ Idle
  /\ connPc[g] = "gum"
  /\ Commit(ConnectAfterGumF(Cur, g, granted))

\* ---- audio device
\* The browser starts a suspended input context (user activation).
CtxInRun(g) ==
  /\ Idle
  /\ ctxIn[g] = "suspended"
  /\ Commit([Cur EXCEPT !.ctxIn[g] = "running"])

\* scriptProcessor.onaudioprocess of the processing node created by connect
\* invocation g, lines 56-73.  The node delivers frames while its handler is
\* installed and its context is running.
OnAudioProcess(g) ==
  /\ Idle
  /\ proc[g] = "live" /\ ctxIn[procCtx[g]] = "running"
  /\ \E o \in SendOutcomes :
       LET s == Cur
           p == sessionPromise
       IN IF MicMuted(s)
            THEN Commit(Emit(s, "micdrop", g, 0))
            ELSE CASE prom[p] = "resolved" -> Commit(MicSendF(s, p, o, "mic", 0))
                   [] prom[p] = "pending" ->
                        /\ Len(reactions[p]) < MaxQueue
                        /\ Commit([Emit(s, "micq", p, 0)
                                     EXCEPT !.reactions[p] = Then(@, "mic", p)])
                   [] OTHER -> Commit(Emit(s, "micfail", p, 0))

\* ---- channel (remote inference session) callbacks
\* onopen, then the session promise resolves and its reactions are queued
ChanOpen(g) ==
  /\ Idle
  /\ chan[g] = "connecting"
  /\ Commit([Notify(Cur, "CONNECTED")
               EXCEPT !.chan[g] = "open", !.prom[g] = "resolved",
                      !.micro = reactions[g], !.reactions[g] = <<>>])

\* the handshake fails: onerror, and the session promise rejects with text m
ChanHandshakeFail(g, m) ==
  /\ Idle
  /\ chan[g] = "connecting"
  /\ CanFail
  /\ Commit([Notify(OnError(Fault(Cur)), "ERROR")
               EXCEPT !.chan[g] = "errored", !.prom[g] = "rejected", !.promErr[g] = m,
                      !.micro = reactions[g], !.reactions[g] = <<>>])

\* onerror on an established channel
ChanError(g) ==
  /\ Idle
  /\ chan[g] \in {"open", "closing"}
  /\ CanFail
  /\ Commit([Notify(OnError(Fault(Cur)), "ERROR") EXCEPT !.chan[g] = "errored"])

\* onclose: the remote side closed, or the close asked for completed
ChanClose(g) ==
  /\ Idle
  /\ chan[g] \in {"open", "closing", "errored"}
  /\ IF chan[g] = "open"
       THEN CanFail /\ Commit([Notify(Fault(Cur), "DISCONNECTED") EXCEPT !.chan[g] = "closed"])
       ELSE Commit([Notify(Cur, "DISCONNECTED") EXCEPT !.chan[g] = "closed"])

\* ---- reactions of a settled session promise, in registration order
RunReaction ==
  /\ micro # <<>>
  /\ \E o \in SendOutcomes :
       LET r == Head(micro)
           s == [Cur EXCEPT !.micro = Tail(micro)]
           ok == prom[r.g] = "resolved"
       IN CASE r.k = "mic" ->
                 IF ok THEN Commit(MicSendF(s, r.g, o, "micd", r.n)) ELSE Commit(s)
            [] r.k = "close" ->
                 IF ok THEN Commit(CloseSession(s, r.g)) ELSE Commit(s)
            [] r.k = "job" ->
                 IF ok THEN Commit(StreamLoopF(s, o))
                       ELSE Commit(JobCatchF(s, promErr[r.g]))

\* ---- the upload job
\* sendAudioFile(file) called on the manager
SendAudioFile(n) ==
  /\ Idle
  /\ upPc = "idle"
  /\ Commit(SendAudioFileF(Cur, n))

\* the file input's change event: FileUpload.handleChange calls
\* App.handleFileUpload with the selected file
FileSelect(n) ==
  /\ Idle
  /\ Commit(HandleFileUploadF(Cur, n))

\* an awaited resume() of lines 195/198 resolved
UpResumeOk ==
  /\ Idle
  /\ \/ /\ upPc = "resumeOut" /\ ctxOut[upCtx] = "suspended"
        /\ LET s == [Cur EXCEPT !.ctxOut[upCtx] = "running"]
           IN IF inputContext # 0 /\ ctxIn[inputContext] = "suspended"
                THEN Commit([s EXCEPT !.upPc = "resumeIn", !.upCtx = inputContext])
                ELSE Commit([s EXCEPT !.upPc = "decode"])
     \/ /\ upPc = "resumeIn" /\ ctxIn[upCtx] = "suspended"
        /\ Commit([Cur EXCEPT !.ctxIn[upCtx] = "running", !.upPc = "decode"])

\* an awaited resume() of lines 195/198 rejected: the rejection leaves
\* sendAudioFile before its try blocks
UpResumeFail ==
  /\ Idle
  /\ upPc \in {"resumeOut", "resumeIn"}
  /\ LET closed == IF upPc = "resumeOut" THEN ctxOut[upCtx] = "closed"
                                          ELSE ctxIn[upCtx] = "closed"
     IN IF closed
          THEN Commit(AppFinallyF([Cur EXCEPT !.upPc = "threw", !.upErr = "resume"]))
          ELSE CanFail
               /\ Commit(AppFinallyF([Fault(Cur) EXCEPT !.upPc = "threw", !.upErr = "resume"]))

\* lines 206-225 done: decoded, resampled, normalized; first streamAudioData
UpDecodeOk ==
  /\ Idle
  /\ upPc = "decode"
  /\ \E o \in SendOutcomes : Commit(StreamEntryF(Cur, o))

\* lines 227-231: the decode failed
UpDecodeFail ==
  /\ Idle
  /\ upPc = "decode"
  /\ CanFail
  /\ Commit(DecodeCatchF(Fault(Cur)))

\* the 50 ms pacing timer of line 294 fires: next loop iteration
UpPace ==
  /\ Idle
  /\ upPc = "pace"
  /\ \E o \in SendOutcomes : Commit(StreamLoopF([Cur EXCEPT !.upI = @ + CHUNK_SIZE], o))

\* ---- the samples of an uploaded clip
\* decodeAudioData and resampleTo16k delivered the samples b, lines 208-212
ClipDecoded(b) ==
  /\ Idle
  /\ clip.pc = "none"
  /\ Commit([Cur EXCEPT !.clip = [pc |-> "decoded", raw |-> b,
                                   data |-> [i \in DOMAIN b |-> <<b[i], 1>>],
                                   scaled |-> FALSE]])

\* the normalization of the decoded samples, lines 214-225
NormalizeClip ==
  /\ Idle
  /\ clip.pc = "decoded"
  /\ LET r == Normalize(clip.raw)
     IN Commit([Cur EXCEPT !.clip = [pc |-> "normalized", raw |-> clip.raw,
                                      data |-> r.data, scaled |-> r.scaled]])

\* ---- inbound messages and playback
\* onmessage: handleMessage(message), lines 127-146, for a message that
\* arrives on the open channel g
OnMessage(g, nText, up) ==
  /\ Idle
  /\ chan[g] = "open"
  /\ nMsgs < MaxMsgs
  /\ FitsParts(0, nText, up)
  /\ LET k == nMsgs + 1
         s == [Cur EXCEPT !.nMsgs = k]
     IN IF outputContext = 0
          THEN Commit([s EXCEPT !.hm[k] = DoneHandler])
          ELSE Commit(HmLoop([s EXCEPT !.hm[k].clean = TRUE, !.hm[k].g = g],
                             k, 0, nText, up))

\* the awaited pcmToAudioBuffer of lines 149-153 settled, lines 155-171: on
\* success the source is created on the current output context (a null
\* context throws into the catch block) and started; then the loop goes on
HmDecoded(k, ok, nText, up) ==
  /\ Idle
  /\ hm[k].pc = "decode"
  /\ FitsParts(hm[k].j, nText, up)
  /\ IF ok /\ outputContext # 0
       THEN Commit(HmLoop(HmSchedule(Cur, k), k, hm[k].j, nText, up))
       ELSE Commit(HmLoop(Cur, k, hm[k].j, nText, up))

\* the output device clock advances
Tick(g) ==
  /\ Idle
  /\ ctxOut[g] = "running"
  /\ currentTime[g] < MaxTime
  /\ Commit([Cur EXCEPT !.currentTime[g] = @ + 1])

\* ================================================================== Spec
Init ==
  /\ sessionPromise = 0 /\ inputContext = 0 /\ outputContext = 0
  /\ scriptProcessor = 0 /\ inputSource = 0
  /\ isProcessingFile = FALSE /\ hasActiveMic = FALSE /\ nextStartTime = 0
  /\ status = "DISCONNECTED" /\ prevStatus = "none"
  /\ prom = [g \in Gens |-> "none"] /\ promErr = [g \in Gens |-> "none"]
  /\ chan = [g \in Gens |-> "none"]
  /\ ctxIn = [g \in Gens |-> "none"] /\ ctxOut = [g \in Gens |-> "none"]
  /\ proc = [g \in Gens |-> "none"] /\ procCtx = [g \in Gens |-> 0]
  /\ reactions = [g \in Gens |-> <<>>] /\ micro = <<>>
  /\ released = {} /\ misuse = {} /\ nFaults = 0
  /\ stream = [g \in Gens |-> "none"] /\ isUploading = FALSE
  /\ nGen = 0 /\ connPc = [g \in Gens |-> "none"] /\ connCaller = [g \in Gens |-> "none"]
  /\ upPc = "idle" /\ upLen = 0 /\ upI = 0 /\ upSession = 0 /\ upCtx = 0
  /\ upAttempts = 0 /\ upFirstErr = "none" /\ upFirstSent = 0
  /\ upSent = <<>> /\ upErr = "none"
  /\ currentTime = [g \in Gens |-> 0] /\ hm = [k \in MsgIds |-> NoHandler]
  /\ nMsgs = 0 /\ last = NoChunk /\ intrFirst = FALSE
  /\ clip = NoClip
  /\ out = <<>>

Next ==
  \/ Connect
  \/ Disconnect
  \/ \E g \in Gens : ConnectResumeOk(g)
  \/ \E g \in Gens : ConnectResumeFail(g)
  \/ \E g \in Gens, granted \in BOOLEAN : ConnectGum(g, granted)
  \/ \E g \in Gens : CtxInRun(g)
  \/ \E g \in Gens : OnAudioProcess(g)
  \/ \E g \in Gens : ChanOpen(g)
  \/ \E g \in Gens, m \in EnvMsgs : ChanHandshakeFail(g, m)
  \/ \E g \in Gens : ChanError(g)
  \/ \E g \in Gens : ChanClose(g)
  \/ RunReaction
  \/ \E n \in Lens : SendAudioFile(n)
  \/ UpResumeOk
  \/ UpResumeFail
  \/ UpDecodeOk
  \/ UpDecodeFail
  \/ UpPace

Spec == Init /\ [][Next]_vars

\* The playback scheduler: one session, its inbound messages and the clock.
NextPlay ==
  \/ Connect
  \/ Disconnect
  \/ \E g \in Gens : ConnectResumeOk(g)
  \/ \E g \in Gens : ConnectGum(g, FALSE)
  \/ \E g \in Gens : ChanOpen(g)
  \/ \E g \in Gens, nText \in PartCounts, up \in Upcoming : OnMessage(g, nText, up)
  \/ \E k \in MsgIds, ok \in BOOLEAN, nText \in PartCounts, up \in Upcoming :
        HmDecoded(k, ok, nText, up)
  \/ \E g \in Gens : Tick(g)

SpecPlay == Init /\ [][NextPlay]_vars

\* The file input: sessions and upload jobs started from the App, on a
\* channel that stays up.
NextUpload ==
  \/ Connect
  \/ \E g \in Gens : ConnectResumeOk(g)
  \/ \E g \in Gens, granted \in BOOLEAN : ConnectGum(g, granted)
  \/ \E g \in Gens : ChanOpen(g)
  \/ RunReaction
  \/ \E n \in Lens : FileSelect(n)
  \/ UpResumeOk
  \/ UpDecodeOk
  \/ UpDecodeFail
  \/ UpPace

SpecUpload == Init /\ [][NextUpload]_vars

\* The App with a channel that can fail: sessions started by the toggle or
\* by a file selection, upload jobs, and the failures of connect, decode and
\* streaming.
NextUi ==
  \/ Connect
  \/ \E g \in Gens : ConnectResumeOk(g)
  \/ \E g \in Gens : ConnectResumeFail(g)
  \/ \E g \in Gens, granted \in BOOLEAN : ConnectGum(g, granted)
  \/ \E g \in Gens : ChanOpen(g)
  \/ \E g \in Gens, m \in EnvMsgs : ChanHandshakeFail(g, m)
  \/ \E g \in Gens : ChanError(g)
  \/ \E g \in Gens : ChanClose(g)
  \/ RunReaction
  \/ \E n \in Lens : FileSelect(n)
  \/ UpResumeOk
  \/ UpResumeFail
  \/ UpDecodeOk
  \/ UpDecodeFail
  \/ UpPace

SpecUi == Init /\ [][NextUi]_vars

\* Playback during an upload: inbound messages and their suspended handlers
\* next to a job that may lose its channel and reconnect.
NextPlayUpload ==
  \/ Connect
  \/ \E g \in Gens : ConnectResumeOk(g)
  \/ \E g \in Gens : ConnectGum(g, FALSE)
  \/ \E g \in Gens : ChanOpen(g)
  \/ \E g \in Gens : ChanClose(g)
  \/ RunReaction
  \/ \E n \in Lens : SendAudioFile(n)
  \/ UpResumeOk
  \/ UpDecodeOk
  \/ UpPace
  \/ \E g \in Gens, nText \in PartCounts, up \in Upcoming : OnMessage(g, nText, up)
  \/ \E k \in MsgIds, ok \in BOOLEAN, nText \in PartCounts, up \in Upcoming :
        HmDecoded(k, ok, nText, up)

SpecPlayUpload == Init /\ [][NextPlayUpload]_vars

\* The manager driven through its public methods alone: connect() and
\* disconnect() in any order, the capture pipeline and the channel.
NextApi ==
  \/ Connect
  \/ ConnectAgain
  \/ Disconnect
  \/ \E g \in Gens : ConnectResumeOk(g)
  \/ \E g \in Gens, granted \in BOOLEAN : ConnectGum(g, granted)
  \/ \E g \in Gens : CtxInRun(g)
  \/ \E g \in Gens : OnAudioProcess(g)
  \/ \E g \in Gens : ChanOpen(g)
  \/ RunReaction

SpecApi == Init /\ [][NextApi]_vars

\* The samples of one clip through decode and normalization.
NextNorm ==
  \/ \E b \in Buffers : ClipDecoded(b)
  \/ NormalizeClip

SpecNorm == Init /\ [][NextNorm]_vars

\* ============================================================ properties
\* kinds of the events of the last turn
Kinds == {out[i].kind : i \in DOMAIN out}

\* the last turn was a capture callback that sent its frame on the channel
\* or enqueued it on the pending session promise
MicSent == Kinds \cap {"mic", "micq"} # {}

\* an upload job is between its start and its return or throw
UploadActive == upPc \notin {"idle", "rejected", "returned", "threw"}
UploadOver == upPc \in {"returned", "threw"}

\* reconnects performed by the upload job
JobReconnects == Cardinality({g \in Gens : connCaller[g] = "job"})

\* ceil(n / CHUNK_SIZE)
NChunks(n) == (n + CHUNK_SIZE - 1) \div CHUNK_SIZE

\* what a complete streaming attempt over n samples sends
Expected(n) == [i \in 1..NChunks(n) |-> ChunkMsg((i - 1) * CHUNK_SIZE)] \o <<PromptMsg>>

IsPrefix(a, b) == Len(a) <= Len(b) /\ a = SubSeq(b, 1, Len(a))

\* C1: a capture callback that fires while isProcessingFile is true neither
\* sends its frame on the channel nor enqueues it: the frame is dropped.
C1_MutedWhileUploading ==
  [][\A g \in Gens :
       (isProcessingFile /\ OnAudioProcess(g)) => (~MicSent' /\ reactions' = reactions)]_vars

\* a frame was dropped because of the upload flag alone
C1_Witness ==
  /\ isProcessingFile /\ sessionPromise # 0 /\ inputContext # 0
  /\ Kinds = {"micdrop"}

\* C2: from the start of an upload job until it returns or throws, the
\* reconnect and second attempt of a retry included, no capture callback
\* sends or enqueues a microphone frame.
C2_MutedForWholeJob == UploadActive => ~MicSent

\* C3: a job whose first streaming attempt failed with a transient failure
\* and that returned normally made exactly one reconnect and exactly two
\* streaming attempts, and isProcessingFile is false at its return.
C3_OneRetryThenSuccess ==
  (upPc = "returned" /\ IsTransient(upFirstErr))
    => (JobReconnects = 1 /\ upAttempts = 2 /\ ~isProcessingFile)

C3_Witness ==
  /\ upPc = "returned" /\ upFirstErr = "closed" /\ upAttempts = 2
  /\ upSent = Expected(upLen) /\ upLen > CHUNK_SIZE

\* C4: a job makes at most two streaming attempts and at most one reconnect;
\* when the reconnect or the retry attempt fails the job throws, and
\* isProcessingFile is false afterwards.
C4_NoThirdAttempt ==
  /\ upAttempts <= 2 /\ JobReconnects <= 1
  /\ (UploadOver /\ JobReconnects = 1 /\ upSent # Expected(upLen))
       => (upPc = "threw" /\ ~isProcessingFile)

\* the retry attempt failed after its first chunk
C4_Witness ==
  /\ upPc = "threw" /\ upAttempts = 2 /\ JobReconnects = 1 /\ Len(upSent) = 1

\* C5: on every exit of an upload job that set the flag, isProcessingFile is
\* false when sendAudioFile returns or throws.
C5_FlagClearedOnExit == UploadOver => ~isProcessingFile

\* C6: a streaming attempt over n samples sends the chunks at offsets 0,
\* 8192, ... in this order, ceil(n/8192) of them when it does not fail, then
\* the prompt once; an attempt that fails sends no prompt.
C6_ChunksThenPrompt ==
  /\ IsPrefix(upSent, Expected(upLen))
  /\ upPc = "returned" => upSent = Expected(upLen)
  /\ upPc \in {"reconnect", "threw"} => upSent # Expected(upLen)

\* a clip of one whole chunk and one sample more was streamed completely
C6_Witness ==
  /\ upPc = "returned" /\ upLen = CHUNK_SIZE + 1
  /\ upSent = <<ChunkMsg(0), ChunkMsg(CHUNK_SIZE), PromptMsg>>

\* a source was started in this turn
Started == <<last'.msg, last'.part>> # <<last.msg, last.part>>

\* chunk a arrived before chunk b
Before(a, b) == a.msg < b.msg \/ (a.msg = b.msg /\ a.part < b.part)

\* the later chunk b starts no earlier than the end of the earlier chunk a,
\* and exactly at its end when the clock has not passed it
Gapless(a, b, now) ==
  /\ b.start >= a.start + a.dur
  /\ now <= a.start + a.dur => b.start = a.start + a.dur

\* C7: of two inbound audio chunks with no interrupted signal and no
\* disconnect between them, the one that arrived later starts no earlier
\* than the start of the other plus its duration, and exactly then when the
\* device clock has not passed the cursor, whatever the interleaving of the
\* handleMessage invocations.
C7_Gapless ==
  [][(Started /\ last.msg # 0 /\ last.fresh /\ last.clean /\ last'.clean)
       => IF Before(last, last')
            THEN Gapless(last, last', currentTime[outputContext])
            ELSE Gapless(last', last, currentTime[outputContext])]_vars

\* C8: the first source started after an interrupted signal was handled
\* starts at a time <= the device's currentTime at that moment, also when its
\* decode was in flight when the signal arrived.
C8_StartsAtOnce ==
  [][(Started /\ intrFirst) => last'.start <= currentTime[outputContext]]_vars

\* a chunk whose decode was in flight when the interrupted signal arrived
\* was the first one started after it
C8_Witness == last.msg # 0 /\ last.first /\ ~last.clean /\ outputContext # 0

\* C9: disconnect() leaves the reported state DISCONNECTED, invokes nothing
\* on a null reference and releases no resource a second time, whenever it
\* is called: twice in a row, before any connect(), without a microphone.
C9_DisconnectSafe ==
  [][Disconnect => (status' = "DISCONNECTED" /\ misuse' = {})]_vars

\* a second disconnect() in a row, on a session that never had a
\* microphone: it released nothing
C9_Witness ==
  /\ out = <<Ev("disconnect", 0, 0)>> /\ released # {}
  /\ connPc[1] = "done" /\ \A g \in Gens : proc[g] = "none"
  /\ status = "DISCONNECTED" /\ prevStatus = "DISCONNECTED"

\* the pairs of consecutive statuses of the state machine; a repeated ERROR
\* is tolerated
Transitions ==
  {<<"DISCONNECTED", "CONNECTING">>, <<"CONNECTING", "CONNECTED">>,
   <<"CONNECTING", "ERROR">>, <<"CONNECTED", "ERROR">>, <<"ERROR", "ERROR">>}
    \cup {<<st, "DISCONNECTED">> : st \in {"DISCONNECTED", "CONNECTING", "CONNECTED", "ERROR"}}

\* C10: every pair of consecutive statuses delivered to onStatusChange is
\* DISCONNECTED->CONNECTING, CONNECTING->CONNECTED, CONNECTING->ERROR,
\* CONNECTED->ERROR or any->DISCONNECTED.
C10_StrictTransitions == prevStatus # "none" => <<prevStatus, status>> \in Transitions

\* a native resource created by connect invocation g is not yet released:
\* its channel is connecting or open with no close asked for, one of its
\* audio contexts is not closed, or its processing node delivers frames
SessionLive(g) ==
  \/ chan[g] \in {"connecting", "open"}
  \/ ctxIn[g] \in {"suspended", "running"}
  \/ ctxOut[g] \in {"suspended", "running"}
  \/ proc[g] = "live"

\* C11: a connect() that follows a prior session creates its resources only
\* after the prior session's channel, processing node and audio contexts are
\* released: at no time are resources of two sessions live.
C11_OneSessionAtATime == Cardinality({g \in Gens : SessionLive(g)}) <= 1

\* C12: when getUserMedia fails, connect() goes on and returns: the channel
\* is opened, hasActiveMic is false, no capture callback is installed, and
\* neither onError nor a status is delivered on account of the failure.
C12_MicFailureNotFatal ==
  [][\A g \in Gens :
       ConnectGum(g, FALSE)
         => /\ connPc'[g] = "done" /\ sessionPromise' = g /\ chan'[g] = "connecting"
            /\ ~hasActiveMic' /\ proc'[g] = "none" /\ scriptProcessor' = 0
            /\ inputSource' = 0
            /\ "onError" \notin Kinds' /\ status' = status /\ prevStatus' = prevStatus]_vars

\* a session connected without a microphone: the acquisition failed with
\* both audio contexts in place
C12_Witness ==
  /\ connPc[1] = "done" /\ stream[1] = "none" /\ inputContext = 1 /\ outputContext = 1
  /\ sessionPromise = 1 /\ chan[1] = "open" /\ status = "CONNECTED" /\ ~hasActiveMic

\* the fields of a torn-down manager
FieldsNull ==
  /\ sessionPromise = 0 /\ scriptProcessor = 0 /\ inputSource = 0
  /\ inputContext = 0 /\ outputContext = 0

\* C13: when the error observer receives a message the status is ERROR and
\* the teardown has been done: session handle, capture pipeline and audio
\* contexts are released as after disconnect().
C13_ErrorTearsDown == "onError" \in Kinds => (status = "ERROR" /\ FieldsNull)

\* C14: when the session promise of a connect() rejected, that connect()
\* threw to its caller and the resources it acquired are released.
C14_HandshakeFailureThrows ==
  \A g \in Gens :
    prom[g] = "rejected"
      => (connPc[g] = "threw" /\ ctxIn[g] = "closed" /\ ctxOut[g] = "closed"
          /\ proc[g] # "live")

\* C15: after disconnect() the session handle, both contexts, the processing
\* node and the input source are null, the cursor is 0 and the microphone
\* stream is stopped.
C15_DisconnectReleasesAll ==
  [][Disconnect
       => (FieldsNull' /\ nextStartTime' = 0 /\ ~isProcessingFile'
           /\ status' = "DISCONNECTED" /\ \A g \in Gens : stream'[g] # "live")]_vars

\* C16: a failed decode ends the job with a throw: nothing was or is sent,
\* no reconnect and no streaming attempt is made, isProcessingFile is false
\* and the session (handle, contexts, channel, reported state) is unchanged.
C16_DecodeFailureTerminal ==
  [][UpDecodeFail
       => /\ upPc' = "threw" /\ ~isProcessingFile'
          /\ upSent' = <<>> /\ Kinds' = {} /\ upAttempts' = 0 /\ nGen' = nGen
          /\ UNCHANGED <<sessionPromise, inputContext, outputContext, scriptProcessor,
                         inputSource, status, prevStatus, chan, ctxIn, ctxOut, proc,
                         released>>]_vars

\* a decode failed on a connected session
C16_Witness ==
  /\ upPc = "threw" /\ upErr = "decode" /\ status = "CONNECTED"
  /\ sessionPromise = 1 /\ chan[1] = "open" /\ ctxOut[1] = "running"

\* the failure texts that ask for the reconnect-and-retry
TransientTexts == {"unavailable", "timeout", "closed", "Session not active"}

\* C17: the first streaming failure leads to the reconnect exactly when its
\* text is a transient one; any other failure is thrown to the caller as it
\* is, with no reconnect (hence no disconnect by the job) and no second
\* streaming attempt.
C17_RetryIffTransient ==
  upFirstErr # "none"
    => IF upFirstErr \in TransientTexts
         THEN JobReconnects = 1
         ELSE /\ JobReconnects = 0 /\ upAttempts = 1
              /\ upPc = "threw" /\ upErr = upFirstErr /\ ~isProcessingFile

\* a permanent failure after the first chunk went out
C17_Witness ==
  /\ upFirstErr = "quota" /\ upPc = "threw" /\ Len(upSent) = 1 /\ nGen = 1

\* the registration numbers of the reactions of q increase
InOrder(q) == \A i, j \in DOMAIN q : i < j => q[i].n < q[j].n

TornDown(g) ==
  \/ <<"session", g>> \in released
  \/ \E i \in DOMAIN reactions[g] : reactions[g][i].k = "close"
  \/ \E i \in DOMAIN micro : micro[i].k = "close" /\ micro[i].g = g

\* C20: nothing is sent on the handle of a session that disconnect() has
\* torn down: no chunk or prompt of a suspended upload job, no queued
\* microphone frame.
C20_NoStaleAction ==
  \A i \in DOMAIN out :
    out[i].kind \in {"chunk", "prompt", "mic", "micd"} => ~TornDown(out[i].ch)

\* C18: at most one upload job is active: while a job is active isUploading
\* is true, and a file selected then is rejected by the guard, leaving the
\* running job and what it sends untouched.
C18_OneJobAtATime ==
  [][/\ UploadActive => isUploading
     /\ \A n \in Lens :
          (UploadActive /\ FileSelect(n))
            => /\ Kinds' = {"uploadRejected"}
               /\ UNCHANGED <<upPc, upLen, upI, upSession, upAttempts, upSent,
                              isProcessingFile, isUploading, reactions, nGen>>]_vars

\* a file was selected while a job had sent its first chunk: it was rejected
C18_Witness ==
  /\ Kinds = {"uploadRejected"} /\ upPc = "pace" /\ Len(upSent) = 1 /\ isUploading

\* C21: isProcessingFile changes only at the start of an upload job (to
\* true) and at its end (to false); connect, disconnect, message handling
\* and the capture callback leave it alone.
C21_FlagOwnedByJob ==
  [][isProcessingFile' # isProcessingFile
       => IF isProcessingFile'
            THEN ~UploadActive /\ UploadActive'
            ELSE UploadActive /\ UploadOver']_vars

\* C22: a frame captured by the pipeline that connect invocation g created
\* is sent on the session of that same invocation, never on the channel of
\* a later session; so also when connect() ran again with no disconnect().
C22_FramesStayOnTheirSession ==
  [][\A g \in Gens :
       (OnAudioProcess(g) /\ MicSent')
         => \A i \in DOMAIN out' :
              out'[i].kind \in {"mic", "micq"} => out'[i].ch = g]_vars

\* C23: peak normalization.  With m the largest magnitude among the samples:
\* when m > 0 every sample is multiplied by 0.95 / m, so the largest
\* magnitude becomes 0.95 and signs and ratios are kept; when m = 0 or the
\* buffer is empty the samples are unchanged and nothing is divided.
Peak(x) == CHOOSE v \in {Abs(x[i]) : i \in DOMAIN x} \cup {0} :
             \A i \in DOMAIN x : v >= Abs(x[i])

Sign(v) == IF v > 0 THEN 1 ELSE IF v < 0 THEN 0 - 1 ELSE 0

C23_PeakNormalization ==
  clip.pc = "normalized" =>
    LET x == clip.raw
        y == clip.data
        m == Peak(x)
    IN /\ DOMAIN y = DOMAIN x
       /\ \A i \in DOMAIN y : y[i][2] > 0
       /\ IF m > 0
            THEN /\ clip.scaled
                 /\ \A i \in DOMAIN x : y[i][1] * 100 * m = 95 * x[i] * y[i][2]
                 /\ \E i \in DOMAIN x : Abs(y[i][1]) * 100 = 95 * y[i][2]
                 /\ \A i \in DOMAIN x : Abs(y[i][1]) * 100 <= 95 * y[i][2]
                 /\ \A i \in DOMAIN x : Sign(y[i][1]) = Sign(x[i])
                 /\ \A i, j \in DOMAIN x :
                      y[i][1] * y[j][2] * x[j] = y[j][1] * y[i][2] * x[i]
            ELSE /\ ~clip.scaled
                 /\ \A i \in DOMAIN x : y[i] = <<x[i], 1>>

\* a clip with a negative sample and a sample below the peak was scaled
C23_Witness ==
  /\ clip.pc = "normalized" /\ clip.scaled
  /\ \E i, j \in DOMAIN clip.raw :
       /\ clip.raw[i] < 0
       /\ 0 < Abs(clip.raw[j]) /\ Abs(clip.raw[j]) < Peak(clip.raw)

\* C24: while the session is alive, a message's text parts are each handed to
\* onTextReceived once, in part order, and each audio part gives one started
\* source when its decode succeeds and none when it fails.
Texts(events) == SelectSeq(events, LAMBDA e : e.kind = "text")

C24_PartsHandledOnce ==
  [][/\ \A g \in Gens, nText \in PartCounts, up \in Upcoming :
          (OnMessage(g, nText, up) /\ outputContext # 0)
            => /\ Texts(out') = [i \in 1..nText |-> Ev("text", nMsgs + 1, i)]
               /\ ~Started
     /\ \A k \in MsgIds, ok \in BOOLEAN, nText \in PartCounts, up \in Upcoming :
          (HmDecoded(k, ok, nText, up) /\ outputContext # 0)
            => /\ Texts(out') = [i \in 1..nText |-> Ev("text", k, hm[k].j + i)]
               /\ ok <=> Started
               /\ Started => (last'.msg = k /\ last'.part = hm[k].j)]_vars

\* a message's audio part was started and the text part after it delivered
C24_Witness ==
  \E k \in MsgIds :
    /\ out = <<Ev("text", k, 2)>>
    /\ last.msg = k /\ last.part = 1
    /\ outputContext # 0

\* C25: no chunk is scheduled in the past: the start time handed to
\* source.start is max(cursor, currentTime) as of that moment, whatever the
\* clock did while the decode was awaited.
C25_NeverInThePast ==
  [][Started => last'.start = Max(nextStartTime, currentTime[outputContext])]_vars

\* C26: the cursor is never negative; it decreases only to 0, when an
\* interrupted signal is handled or on disconnect(); and starting a chunk
\* advances it by exactly the chunk's duration (the next audio part of the
\* same message may then raise it to the clock, an interrupted signal of the
\* same message reset it).
C26_CursorMonotone ==
  [][/\ nextStartTime >= 0 /\ nextStartTime' >= 0
     /\ nextStartTime' < nextStartTime
          => (nextStartTime' = 0 /\ (intrFirst' \/ outputContext' = 0))
     /\ (Started /\ ~intrFirst')
          => \/ nextStartTime' = last'.start + last'.dur
             \/ /\ nextStartTime' > last'.start + last'.dur
                /\ nextStartTime' = currentTime[outputContext]
                /\ hm'[last'.msg].pc = "decode"]_vars

\* a chunk of positive duration was started, then the cursor was reset by
\* an interrupted signal
C26_Witness ==
  /\ last.msg # 0 /\ last.dur > 0 /\ ~last.fresh
  /\ intrFirst /\ nextStartTime = 0 /\ outputContext # 0

\* C27: chunks are scheduled in arrival order: of two chunks with no cursor
\* reset between the arrival of the one and the start of the other, the one
\* that arrived first does not start later, in whatever order the suspended
\* handleMessage invocations resume.
C27_ArrivalOrder ==
  [][(Started /\ last.msg # 0 /\ last.fresh /\ last.clean /\ last'.clean)
       => /\ Before(last, last') => last.start <= last'.start
          /\ Before(last', last) => last'.start <= last.start]_vars

\* C28: a failed send of a microphone frame is swallowed: the reported
\* status stays as it was, onError is not called, nothing is sent or queued
\* again, and the capture pipeline and the session stay in place for the
\* frames that follow.
C28_MicSendFailureSwallowed ==
  []["micfail" \in Kinds'
       => /\ Kinds' = {"micfail"}
          /\ status' = status /\ prevStatus' = prevStatus
          /\ reactions' = reactions
          /\ proc' = proc /\ scriptProcessor' = scriptProcessor
          /\ sessionPromise' = sessionPromise /\ prom' = prom]_vars

\* a frame's send failed on a resolved session whose pipeline still captures
C28_Witness ==
  /\ Kinds = {"micfail"}
  /\ sessionPromise # 0 /\ prom[sessionPromise] = "resolved"
  /\ scriptProcessor # 0 /\ proc[scriptProcessor] = "live"
  /\ ~MicMuted(Cur)

\* C29: the clip is decoded, resampled and normalized once per job, before
\* the first streaming attempt and not again for the retry; the retry streams
\* the same buffer from offset 0, all its chunks and then the prompt, however
\* far the failed first attempt got.
C29_RetryStreamsWholeBuffer ==
  /\ upAttempts >= 1 => upPc \notin {"resumeOut", "resumeIn", "decode"}
  /\ upAttempts = 2
       => /\ IsPrefix(upSent, Expected(upLen))
          /\ upPc = "pace" => upSent[Len(upSent)] = ChunkMsg(upI)
          /\ upPc = "returned" => upSent = Expected(upLen)

\* a clip of two chunks went through completely on the retry, after a first
\* attempt that failed with one chunk sent
C29_Witness ==
  /\ upPc = "returned" /\ upAttempts = 2 /\ upFirstErr \in TransientTexts
  /\ upFirstSent = 1
  /\ NChunks(upLen) = 2 /\ upSent = Expected(upLen)

C31_CancelledConnectStops ==
  [][\A g \in Gens :
       (/\ connPc[g] \in {"resume", "gum"}
        /\ outputContext = 0 /\ inputContext = 0
        /\ connPc'[g] # connPc[g])
         => /\ chan'[g] = "none" /\ proc'[g] = "none"
            /\ sessionPromise' = 0
            /\ status' = "DISCONNECTED"]_vars

\* C32: a file selected while the connection state is DISCONNECTED or ERROR,
\* or with no manager, starts a fresh session, and the job then runs on that
\* session; selected while CONNECTING it sends nothing and ends with the
\* error "Connection in progress. Please wait a moment."; selected while
\* CONNECTED it runs on the session in place, with no new connect().
C32_UploadBySessionState ==
  [][/\ \A n \in Lens :
          (~isUploading /\ FileSelect(n))
            => CASE nGen = 0 \/ status \in {"DISCONNECTED", "ERROR"} ->
                      /\ nGen' = nGen + 1 /\ connCaller'[nGen'] = "upload"
                      /\ upPc' = "startSession" /\ upLen' = n /\ isUploading'
                      /\ Kinds' \cap {"chunk", "prompt"} = {}
                 [] status = "CONNECTING" ->
                      /\ Kinds' = {"uploadFailed"} /\ upErr' = ConnectionInProgress
                      /\ ~isUploading'
                      /\ UNCHANGED <<nGen, sessionPromise, chan, prom, reactions,
                                     isProcessingFile, upPc, upSent>>
                 [] OTHER ->
                      /\ UNCHANGED <<nGen, sessionPromise, chan, prom, connPc>>
                      /\ upPc' # "startSession" /\ upLen' = n
                      /\ sessionPromise # 0 => (UploadActive' /\ isProcessingFile')
     /\ \A g \in Gens, granted \in BOOLEAN :
          (upPc = "startSession" /\ connCaller[g] = "upload" /\ ConnectGum(g, granted))
            => /\ sessionPromise' = g /\ chan'[g] = "connecting"
               /\ UploadActive' /\ upPc' # "startSession" /\ isProcessingFile'
               /\ upSession' \in {0, g}]_vars

\* a file selected after the first manager's handshake had failed (state
\* ERROR) started the session of a second manager
C32_Witness ==
  /\ upPc = "startSession" /\ nGen = 2 /\ connCaller[2] = "upload"
  /\ prom[1] = "rejected" /\ status = "CONNECTING" /\ isUploading

\* C33: after the caller's disconnect() the manager opens no channel by
\* itself: an upload job that was in flight (it finds the manager without
\* session and contexts) starts no new connect().
C33_NoReconnectAfterDisconnect ==
  [][(UploadActive /\ sessionPromise = 0 /\ outputContext = 0)
       => (nGen' = nGen /\ \A g \in Gens : chan[g] = "none" => chan'[g] = "none")]_vars

\* C34: CONNECTED is the reported status only while the manager holds the
\* session whose channel opened: the onopen of a session that was
\* disconnected or superseded does not make the status CONNECTED.
C34_ConnectedMeansSession ==
  status = "CONNECTED" => (sessionPromise # 0 /\ chan[sessionPromise] = "open")

\* C35: a message delivered when disconnect() has nulled the output context
\* has no effect (no text, no source, cursor 0); and a handleMessage
\* invocation that was suspended on its decode when disconnect() ran starts
\* no source and does not move the cursor up when it resumes.
C35_NoPlaybackAfterDisconnect ==
  [][/\ \A g \in Gens, nText \in PartCounts, up \in Upcoming :
          (OnMessage(g, nText, up) /\ outputContext = 0)
            => (out' = <<>> /\ ~Started /\ nextStartTime' = 0)
     /\ \A k \in MsgIds, ok \in BOOLEAN, nText \in PartCounts, up \in Upcoming :
          (HmDecoded(k, ok, nText, up) /\ hm[k].g # outputContext)
            => (~Started /\ nextStartTime' <= nextStartTime)]_vars

\* C36: sendAudioFile on a manager without session throws "Session not
\* active" at once and changes nothing: the upload flag, the session, the
\* contexts and the reported status stay as they are, nothing is decoded and
\* nothing is sent.
C36_NoSessionNoEffect ==
  [][\A n \in Lens :
       (sessionPromise = 0 /\ SendAudioFile(n))
         => /\ upPc' = "rejected" /\ upErr' = "Session not active"
            /\ out' = <<>> /\ upSent' = <<>> /\ upAttempts' = 0
            /\ UNCHANGED <<isProcessingFile, sessionPromise, inputContext,
                           outputContext, status, prevStatus, ctxIn, ctxOut,
                           chan, prom, reactions, micro, nGen, released>>]_vars

\* sendAudioFile was refused on a manager that had been disconnected
C36_Witness ==
  /\ upPc = "rejected" /\ upErr = "Session not active"
  /\ nGen = 1 /\ sessionPromise = 0 /\ status = "DISCONNECTED" /\ ~isProcessingFile

\* C37: every started handleFileUpload ends with isUploading false, whether
\* the job succeeded or the connect, the decode or the streaming failed; a
\* failure ends in the error state; and a selection is turned away only
\* while a job is in progress.
C37_UploadingAlwaysReset ==
  /\ isUploading => UploadActive
  /\ upPc \in {"threw", "rejected"} => upErr # "none"
  /\ "uploadFailed" \in Kinds => (upErr # "none" /\ ~isUploading)
  /\ "uploadRejected" \in Kinds => UploadActive

\* the session started for a selected file failed to connect: the handler
\* ended with the error kept and isUploading reset
C37_Witness ==
  /\ upPc = "threw" /\ upErr = "connect" /\ ~isUploading
  /\ nGen # 0 /\ connCaller[nGen] = "upload" /\ connPc[nGen] = "threw"

\* C38: an upload job terminates: an attempt's loop runs at most
\* ceil(n / 8192) times with a growing offset, there are at most two
\* attempts, and sendAudioFile returns or throws with isProcessingFile false.
C38_JobTerminates ==
  /\ upAttempts <= 2
  /\ upI <= NChunks(upLen) * CHUNK_SIZE
  /\ Len(upSent) <= NChunks(upLen) + 1
  /\ upPc = "pace" => (upI < upLen /\ Len(upSent) = upI \div CHUNK_SIZE + 1)
  /\ UploadOver => ~isProcessingFile

====
